---- MODULE Spec2Model ----
(***************************************************************************)
(* qmi-firmware-update (src/qmi-firmware-update/qfu-main.c): the process   *)
(* lifecycle and cancellation coordinator.                                 *)
(*                                                                         *)
(* State: the runtime globals loop, cancellable and exit_status, the unix  *)
(* signal sources attached to the default main context, the position of    *)
(* main(), and the two logging flags read by log_handler.                  *)
(*                                                                         *)
(* The main loop is single threaded: g_main_loop_run repeats iterations;   *)
(* one iteration collects the sources that are ready and dispatches each   *)
(* of them, and g_main_loop_quit only clears the running flag, so the      *)
(* sources collected by the current iteration are still dispatched.        *)
(* A GSourceFunc that returns FALSE has its source removed.                *)
(*                                                                         *)
(* qfu-main.c creates the cancellable and the loop but holds no device     *)
(* operation; the operation (its own cancellation request and its          *)
(* completion callback) is modelled from the written specification and is  *)
(* marked as such below.                                                   *)
(***************************************************************************)
EXTENDS Integers, Sequences, FiniteSets, TLC

\* stdlib values used at lines 91 and 223
EXIT_SUCCESS == 0
EXIT_FAILURE == 1

\* the signals registered at lines 226-228
Signals == {"SIGINT", "SIGHUP", "SIGTERM"}

\* callbacks of the device operation that the loop dispatches
OpSources == {"op_cancel", "op_done"}

Sources == Signals \cup OpSources

\* GLogLevelFlags values that reach log_handler: the handler is installed
\* with G_LOG_LEVEL_MASK (lines 209-210), so only single level bits without
\* the RECURSION/FATAL flag bits are passed to it.
G_LOG_FLAG_FATAL     == 2
G_LOG_LEVEL_ERROR    == 4
G_LOG_LEVEL_CRITICAL == 8
G_LOG_LEVEL_WARNING  == 16
G_LOG_LEVEL_MESSAGE  == 32
G_LOG_LEVEL_INFO     == 64
G_LOG_LEVEL_DEBUG    == 128
G_LOG_LEVEL_USER     == 256

LogLevels == { G_LOG_LEVEL_ERROR, G_LOG_LEVEL_CRITICAL, G_LOG_LEVEL_WARNING,
               G_LOG_LEVEL_MESSAGE, G_LOG_LEVEL_INFO, G_LOG_LEVEL_DEBUG,
               G_LOG_LEVEL_USER }

\* how many times the device operation may itself cancel the token
MaxOpCancels == 1

VARIABLES
    loopState,      \* loop: "Created" (is_running FALSE, not run yet), "Running", "Stopped"
    cancelled,      \* cancellable: g_cancellable_is_cancelled
    exit_status,    \* exit_status
    handlers,       \* per signal: number of unix signal sources attached
    pending,        \* sources whose callback is due (signal received / operation event)
    ready,          \* sources collected by the current iteration, not yet dispatched
    pc,             \* main(): "start", "poll", "dispatch", "returned", "done"
    main_result,    \* <<>> until main returns, then <<its return value>>
    op,             \* device operation: "running", "finished_ok", "finished_fail"
    opCancels,      \* cancellation requests issued by the operation itself
    trace,          \* history: the callbacks dispatched so far, in order
    nStops,         \* history: number of Running -> Stopped transitions
    stderr_lines,   \* lines written with g_printerr by signals_handler
    silent_flag,    \* --silent
    verbose_flag,   \* --verbose
    log_last        \* result of the last log_handler call

vars == << loopState, cancelled, exit_status, handlers, pending, ready, pc,
           main_result, op, opCancels, trace, nStops, stderr_lines,
           silent_flag, verbose_flag, log_last >>

coreVars == << loopState, cancelled, exit_status, handlers, stderr_lines >>
logVars  == << silent_flag, verbose_flag, log_last >>
opVars   == << op, opCancels >>

NoLog == [called |-> FALSE, level |-> 0, stream |-> "none", tag |-> ""]

\* variant of Init: exit_status is not pre-set to success
Init_failure_preset ==
    /\ loopState = "Created"
    /\ cancelled = FALSE
    /\ exit_status = EXIT_FAILURE
    /\ handlers = [s \in Signals |-> 1]
    /\ pending = {}
    /\ ready = {}
    /\ pc = "start"
    /\ main_result = << >>
    /\ op = "running"
    /\ opCancels = 0
    /\ trace = << >>
    /\ nStops = 0
    /\ stderr_lines = << >>
    /\ silent_flag \in BOOLEAN
    /\ verbose_flag \in BOOLEAN
    /\ log_last = NoLog

(***************************************************************************)
(* main(), lines 220-228: state when g_main_loop_run is about to be called *)
(***************************************************************************)
Init ==
    /\ loopState = "Created"
    /\ cancelled = FALSE
    /\ exit_status = EXIT_SUCCESS
    /\ handlers = [s \in Signals |-> 1]
    /\ pending = {}
    /\ ready = {}
    /\ pc = "start"
    /\ main_result = << >>
    /\ op = "running"
    /\ opCancels = 0
    /\ trace = << >>
    /\ nStops = 0
    /\ stderr_lines = << >>
    /\ silent_flag \in BOOLEAN
    /\ verbose_flag \in BOOLEAN
    /\ log_last = NoLog

g_main_loop_is_running == loopState = "Running"

\* history record of one dispatched callback
Dispatched(cb) ==
    [cb |-> cb, was_cancelled |-> cancelled, was_running |-> g_main_loop_is_running]

\* history: did this step stop the loop
CountStop ==
    nStops' = IF loopState = "Running" /\ loopState' = "Stopped"
              THEN nStops + 1 ELSE nStops

\* variants of signals_handler, each with one plausible slip
\* the force-stop path resets the token
signals_handler_reset(psignum) ==
    /\ exit_status' = EXIT_FAILURE
    /\ IF ~cancelled
       THEN /\ stderr_lines' = Append(stderr_lines, "cancelling the operation...")
            /\ cancelled' = TRUE
            /\ handlers' = [handlers EXCEPT ![psignum] = (@ + 1) - 1]
            /\ UNCHANGED loopState
       ELSE /\ IF g_main_loop_is_running
               THEN /\ stderr_lines' = Append(stderr_lines, "cancelling the main loop...")
                    /\ loopState' = "Stopped"
               ELSE UNCHANGED << stderr_lines, loopState >>
            /\ handlers' = [handlers EXCEPT ![psignum] = @ - 1]
            /\ cancelled' = FALSE

\* escalation counted per signal type: only a repeat of the same type force-stops
signals_handler_per_type(psignum) ==
    /\ exit_status' = EXIT_FAILURE
    /\ IF ~cancelled \/ (\A i \in DOMAIN trace : trace[i].cb # psignum)
       THEN /\ stderr_lines' = Append(stderr_lines, "cancelling the operation...")
            /\ cancelled' = TRUE
            /\ handlers' = [handlers EXCEPT ![psignum] = (@ + 1) - 1]
            /\ UNCHANGED loopState
       ELSE /\ IF g_main_loop_is_running
               THEN /\ stderr_lines' = Append(stderr_lines, "cancelling the main loop...")
                    /\ loopState' = "Stopped"
               ELSE UNCHANGED << stderr_lines, loopState >>
            /\ handlers' = [handlers EXCEPT ![psignum] = @ - 1]
            /\ UNCHANGED cancelled

\* the failed exit is flagged only on the force-stop path
signals_handler_late_flag(psignum) ==
    /\ IF ~cancelled
       THEN /\ stderr_lines' = Append(stderr_lines, "cancelling the operation...")
            /\ cancelled' = TRUE
            /\ handlers' = [handlers EXCEPT ![psignum] = (@ + 1) - 1]
            /\ UNCHANGED << loopState, exit_status >>
       ELSE /\ exit_status' = EXIT_FAILURE
            /\ IF g_main_loop_is_running
               THEN /\ stderr_lines' = Append(stderr_lines, "cancelling the main loop...")
                    /\ loopState' = "Stopped"
               ELSE UNCHANGED << stderr_lines, loopState >>
            /\ handlers' = [handlers EXCEPT ![psignum] = @ - 1]
            /\ UNCHANGED cancelled

\* the failed exit is flagged only inside the first-request branch
signals_handler_flag_in_if(psignum) ==
    /\ IF ~cancelled
       THEN /\ exit_status' = EXIT_FAILURE
            /\ stderr_lines' = Append(stderr_lines, "cancelling the operation...")
            /\ cancelled' = TRUE
            /\ handlers' = [handlers EXCEPT ![psignum] = (@ + 1) - 1]
            /\ UNCHANGED loopState
       ELSE /\ IF g_main_loop_is_running
               THEN /\ stderr_lines' = Append(stderr_lines, "cancelling the main loop...")
                    /\ loopState' = "Stopped"
               ELSE UNCHANGED << stderr_lines, loopState >>
            /\ handlers' = [handlers EXCEPT ![psignum] = @ - 1]
            /\ UNCHANGED << cancelled, exit_status >>

\* the force-stop path prints but never quits the loop
signals_handler_no_quit(psignum) ==
    /\ exit_status' = EXIT_FAILURE
    /\ IF ~cancelled
       THEN /\ stderr_lines' = Append(stderr_lines, "cancelling the operation...")
            /\ cancelled' = TRUE
            /\ handlers' = [handlers EXCEPT ![psignum] = (@ + 1) - 1]
            /\ UNCHANGED loopState
       ELSE /\ IF g_main_loop_is_running
               THEN stderr_lines' = Append(stderr_lines, "cancelling the main loop...")
               ELSE UNCHANGED stderr_lines
            /\ handlers' = [handlers EXCEPT ![psignum] = @ - 1]
            /\ UNCHANGED << cancelled, loopState >>

\* the first-request branch misses its return and falls through to the quit
signals_handler_fallthrough(psignum) ==
    /\ exit_status' = EXIT_FAILURE
    /\ cancelled' = TRUE
    /\ IF g_main_loop_is_running
       THEN /\ stderr_lines' = (IF ~cancelled
                                THEN Append(stderr_lines, "cancelling the operation...")
                                ELSE stderr_lines) \o << "cancelling the main loop..." >>
            /\ loopState' = "Stopped"
       ELSE /\ stderr_lines' = IF ~cancelled
                               THEN Append(stderr_lines, "cancelling the operation...")
                               ELSE stderr_lines
            /\ UNCHANGED loopState
    /\ handlers' = [handlers EXCEPT ![psignum] = IF ~cancelled THEN (@ + 1) - 1 ELSE @ - 1]

\* the token is never cancelled by the handler
signals_handler_no_cancel(psignum) ==
    /\ exit_status' = EXIT_FAILURE
    /\ IF ~cancelled
       THEN /\ stderr_lines' = Append(stderr_lines, "cancelling the operation...")
            /\ handlers' = [handlers EXCEPT ![psignum] = (@ + 1) - 1]
            /\ UNCHANGED << loopState, cancelled >>
       ELSE /\ IF g_main_loop_is_running
               THEN /\ stderr_lines' = Append(stderr_lines, "cancelling the main loop...")
                    /\ loopState' = "Stopped"
               ELSE UNCHANGED << stderr_lines, loopState >>
            /\ handlers' = [handlers EXCEPT ![psignum] = @ - 1]
            /\ UNCHANGED cancelled


\* the re-armed source is always registered for SIGINT
signals_handler_rearm_sigint(psignum) ==
    /\ exit_status' = EXIT_FAILURE
    /\ IF ~cancelled
       THEN /\ stderr_lines' = Append(stderr_lines, "cancelling the operation...")
            /\ cancelled' = TRUE
            /\ handlers' = [[handlers EXCEPT !["SIGINT"] = @ + 1] EXCEPT ![psignum] = @ - 1]
            /\ UNCHANGED loopState
       ELSE /\ IF g_main_loop_is_running
               THEN /\ stderr_lines' = Append(stderr_lines, "cancelling the main loop...")
                    /\ loopState' = "Stopped"
               ELSE UNCHANGED << stderr_lines, loopState >>
            /\ handlers' = [handlers EXCEPT ![psignum] = @ - 1]
            /\ UNCHANGED cancelled

\* the force-stop path does not test g_main_loop_is_running
signals_handler_always_quit(psignum) ==
    /\ exit_status' = EXIT_FAILURE
    /\ IF ~cancelled
       THEN /\ stderr_lines' = Append(stderr_lines, "cancelling the operation...")
            /\ cancelled' = TRUE
            /\ handlers' = [handlers EXCEPT ![psignum] = (@ + 1) - 1]
            /\ UNCHANGED loopState
       ELSE /\ stderr_lines' = Append(stderr_lines, "cancelling the main loop...")
            /\ loopState' = "Stopped"
            /\ handlers' = [handlers EXCEPT ![psignum] = @ - 1]
            /\ UNCHANGED cancelled

\* the first request is not announced
signals_handler_silent_cancel(psignum) ==
    /\ exit_status' = EXIT_FAILURE
    /\ IF ~cancelled
       THEN /\ cancelled' = TRUE
            /\ handlers' = [handlers EXCEPT ![psignum] = (@ + 1) - 1]
            /\ UNCHANGED << loopState, stderr_lines >>
       ELSE /\ IF g_main_loop_is_running
               THEN /\ stderr_lines' = Append(stderr_lines, "cancelling the main loop...")
                    /\ loopState' = "Stopped"
               ELSE UNCHANGED << stderr_lines, loopState >>
            /\ handlers' = [handlers EXCEPT ![psignum] = @ - 1]
            /\ UNCHANGED cancelled

\* the handler is not re-armed after the first request
signals_handler_no_rearm(psignum) ==
    /\ exit_status' = EXIT_FAILURE
    /\ IF ~cancelled
       THEN /\ stderr_lines' = Append(stderr_lines, "cancelling the operation...")
            /\ cancelled' = TRUE
            /\ handlers' = [handlers EXCEPT ![psignum] = @ - 1]
            /\ UNCHANGED loopState
       ELSE /\ IF g_main_loop_is_running
               THEN /\ stderr_lines' = Append(stderr_lines, "cancelling the main loop...")
                    /\ loopState' = "Stopped"
               ELSE UNCHANGED << stderr_lines, loopState >>
            /\ handlers' = [handlers EXCEPT ![psignum] = @ - 1]
            /\ UNCHANGED cancelled

\* escalation decided by a count of handled signals instead of the token
signals_handler_count_signals(psignum) ==
    /\ exit_status' = EXIT_FAILURE
    /\ IF ~cancelled \/ (\A i \in DOMAIN trace : trace[i].cb \notin Signals)
       THEN /\ stderr_lines' = Append(stderr_lines, "cancelling the operation...")
            /\ cancelled' = TRUE
            /\ handlers' = [handlers EXCEPT ![psignum] = (@ + 1) - 1]
            /\ UNCHANGED loopState
       ELSE /\ IF g_main_loop_is_running
               THEN /\ stderr_lines' = Append(stderr_lines, "cancelling the main loop...")
                    /\ loopState' = "Stopped"
               ELSE UNCHANGED << stderr_lines, loopState >>
            /\ handlers' = [handlers EXCEPT ![psignum] = @ - 1]
            /\ UNCHANGED cancelled

\* the handler re-arms itself on every dispatch
signals_handler_rearm_always(psignum) ==
    /\ exit_status' = EXIT_FAILURE
    /\ handlers' = [handlers EXCEPT ![psignum] = (@ + 1) - 1]
    /\ IF ~cancelled
       THEN /\ stderr_lines' = Append(stderr_lines, "cancelling the operation...")
            /\ cancelled' = TRUE
            /\ UNCHANGED loopState
       ELSE /\ IF g_main_loop_is_running
               THEN /\ stderr_lines' = Append(stderr_lines, "cancelling the main loop...")
                    /\ loopState' = "Stopped"
               ELSE UNCHANGED << stderr_lines, loopState >>
            /\ UNCHANGED cancelled

(***************************************************************************)
(* signals_handler, lines 87-109                                           *)
(***************************************************************************)
signals_handler(psignum) ==
    /\ exit_status' = EXIT_FAILURE
    /\ IF ~cancelled
       THEN /\ stderr_lines' = Append(stderr_lines, "cancelling the operation...")
            /\ cancelled' = TRUE
            \* g_unix_signal_add attaches a new source; return FALSE removes this one
            /\ handlers' = [handlers EXCEPT ![psignum] = (@ + 1) - 1]
            /\ UNCHANGED loopState
       ELSE /\ IF g_main_loop_is_running
               THEN /\ stderr_lines' = Append(stderr_lines, "cancelling the main loop...")
                    /\ loopState' = "Stopped"
               ELSE UNCHANGED << stderr_lines, loopState >>
            \* return FALSE removes this source
            /\ handlers' = [handlers EXCEPT ![psignum] = @ - 1]
            /\ UNCHANGED cancelled

(***************************************************************************)
(* log_handler, lines 114-165: the stream and tag of the line written, or  *)
(* stream "none" when the handler returns without writing.                 *)
(***************************************************************************)
\* variant of log_level_str: the warning case misses its break
log_level_str_fallthrough(log_level) ==
    CASE log_level \in {G_LOG_LEVEL_WARNING, G_LOG_LEVEL_CRITICAL,
                        G_LOG_FLAG_FATAL, G_LOG_LEVEL_ERROR} -> "-Error **"
      [] log_level = G_LOG_LEVEL_DEBUG -> "[Debug]"
      [] OTHER -> ""

log_level_str(log_level) ==
    CASE log_level = G_LOG_LEVEL_WARNING -> "-Warning **"
      [] log_level \in {G_LOG_LEVEL_CRITICAL, G_LOG_FLAG_FATAL, G_LOG_LEVEL_ERROR} -> "-Error **"
      [] log_level = G_LOG_LEVEL_DEBUG -> "[Debug]"
      [] OTHER -> ""

log_err(log_level) ==
    log_level \in {G_LOG_LEVEL_WARNING, G_LOG_LEVEL_CRITICAL,
                   G_LOG_FLAG_FATAL, G_LOG_LEVEL_ERROR}

\* variant of log_handler: verbose is tested before silent
log_handler_verbose_first(log_level) ==
    IF ~verbose_flag /\ (silent_flag \/ ~log_err(log_level))
    THEN [called |-> TRUE, level |-> log_level, stream |-> "none", tag |-> ""]
    ELSE [called |-> TRUE, level |-> log_level,
          stream |-> IF log_err(log_level) THEN "stderr" ELSE "stdout",
          tag |-> log_level_str(log_level)]

log_handler(log_level) ==
    IF silent_flag
    THEN [called |-> TRUE, level |-> log_level, stream |-> "none", tag |-> ""]
    ELSE IF ~verbose_flag /\ ~log_err(log_level)
         THEN [called |-> TRUE, level |-> log_level, stream |-> "none", tag |-> ""]
         ELSE [called |-> TRUE, level |-> log_level,
               stream |-> IF log_err(log_level) THEN "stderr" ELSE "stdout",
               tag |-> log_level_str(log_level)]

(***************************************************************************)
(* Device operation (not in qfu-main.c; from the written specification):   *)
(* it may request cancellation of the shared token, and its completion     *)
(* callback records a failure and stops the loop.  exit_status is pre-set  *)
(* to success, so a successful completion leaves it as it is.              *)
(***************************************************************************)
operation_cancel ==
    /\ cancelled' = TRUE
    /\ UNCHANGED << loopState, exit_status, handlers, stderr_lines >>

operation_done ==
    /\ exit_status' = IF op = "finished_fail" THEN EXIT_FAILURE ELSE exit_status
    /\ loopState' = "Stopped"
    /\ UNCHANGED << cancelled, handlers, stderr_lines >>

(***************************************************************************)
(* Actions                                                                 *)
(***************************************************************************)
\* main(), line 231: g_main_loop_run sets the running flag and iterates
RunLoop ==
    /\ pc = "start"
    /\ pc' = "poll"
    /\ loopState' = "Running"
    /\ UNCHANGED << cancelled, exit_status, handlers, pending, ready, main_result,
                    trace, nStops, stderr_lines >>
    /\ UNCHANGED opVars
    /\ UNCHANGED logVars

\* the process receives a monitored signal that has a source attached
Deliver(s) ==
    /\ pc # "done"
    /\ handlers[s] > 0
    /\ s \notin pending
    /\ pending' = pending \cup {s}
    /\ UNCHANGED << ready, pc, main_result, trace, nStops >>
    /\ UNCHANGED coreVars
    /\ UNCHANGED opVars
    /\ UNCHANGED logVars

\* the operation decides to cancel the token itself
OpRequestsCancel ==
    /\ pc # "done"
    /\ op = "running"
    /\ opCancels < MaxOpCancels
    /\ "op_cancel" \notin pending
    /\ opCancels' = opCancels + 1
    /\ pending' = pending \cup {"op_cancel"}
    /\ UNCHANGED << op, ready, pc, main_result, trace, nStops >>
    /\ UNCHANGED coreVars
    /\ UNCHANGED logVars

\* the operation finishes; its completion callback becomes due
OpFinishes(ok) ==
    /\ pc # "done"
    /\ op = "running"
    /\ op' = IF ok THEN "finished_ok" ELSE "finished_fail"
    /\ pending' = pending \cup {"op_done"}
    /\ UNCHANGED << opCancels, ready, pc, main_result, trace, nStops >>
    /\ UNCHANGED coreVars
    /\ UNCHANGED logVars

\* one iteration of g_main_loop_run starts: collect the ready sources
Iterate ==
    /\ pc = "poll"
    /\ pending # {}
    /\ ready' = pending
    /\ pc' = "dispatch"
    /\ UNCHANGED << pending, main_result, trace, nStops >>
    /\ UNCHANGED coreVars
    /\ UNCHANGED opVars
    /\ UNCHANGED logVars

\* the iteration dispatches a ready unix signal source
DispatchSignal(s) ==
    /\ pc = "dispatch"
    /\ s \in ready
    /\ ready' = ready \ {s}
    /\ pending' = pending \ {s}
    /\ signals_handler(s)
    /\ trace' = Append(trace, Dispatched(s))
    /\ CountStop
    /\ UNCHANGED << pc, main_result >>
    /\ UNCHANGED opVars
    /\ UNCHANGED logVars

\* the iteration dispatches the operation's own cancellation request
DispatchOpCancel ==
    /\ pc = "dispatch"
    /\ "op_cancel" \in ready
    /\ ready' = ready \ {"op_cancel"}
    /\ pending' = pending \ {"op_cancel"}
    /\ operation_cancel
    /\ trace' = Append(trace, Dispatched("op_cancel"))
    /\ CountStop
    /\ UNCHANGED << pc, main_result >>
    /\ UNCHANGED opVars
    /\ UNCHANGED logVars

\* the iteration dispatches the operation's completion callback
DispatchOpDone ==
    /\ pc = "dispatch"
    /\ "op_done" \in ready
    /\ ready' = ready \ {"op_done"}
    /\ pending' = pending \ {"op_done"}
    /\ operation_done
    /\ trace' = Append(trace, Dispatched("op_done"))
    /\ CountStop
    /\ UNCHANGED << pc, main_result >>
    /\ UNCHANGED opVars
    /\ UNCHANGED logVars

\* the iteration is over: g_main_loop_run iterates again or returns
EndIteration ==
    /\ pc = "dispatch"
    /\ ready = {}
    /\ pc' = IF g_main_loop_is_running THEN "poll" ELSE "returned"
    /\ UNCHANGED << pending, ready, main_result, trace, nStops >>
    /\ UNCHANGED coreVars
    /\ UNCHANGED opVars
    /\ UNCHANGED logVars

\* main(), lines 233-236
MainReturn ==
    /\ pc = "returned"
    /\ pc' = "done"
    /\ main_result' = << exit_status >>
    /\ UNCHANGED << pending, ready, trace, nStops >>
    /\ UNCHANGED coreVars
    /\ UNCHANGED opVars
    /\ UNCHANGED logVars

\* a g_log record reaches log_handler
LogEmit(log_level) ==
    /\ pc # "done"
    /\ log_last' = log_handler(log_level)
    /\ UNCHANGED << silent_flag, verbose_flag >>
    /\ UNCHANGED << pending, ready, pc, main_result, trace, nStops >>
    /\ UNCHANGED coreVars
    /\ UNCHANGED opVars

Next ==
    \/ RunLoop
    \/ \E s \in Signals : Deliver(s)
    \/ OpRequestsCancel
    \/ \E ok \in BOOLEAN : OpFinishes(ok)
    \/ Iterate
    \/ \E s \in Signals : DispatchSignal(s)
    \/ DispatchOpCancel
    \/ DispatchOpDone
    \/ EndIteration
    \/ MainReturn
    \/ \E l \in LogLevels : LogEmit(l)

Spec == Init /\ [][Next]_vars

TypeOK ==
    /\ loopState \in {"Created", "Running", "Stopped"}
    /\ cancelled \in BOOLEAN
    /\ exit_status \in {EXIT_SUCCESS, EXIT_FAILURE}
    /\ handlers \in [Signals -> 0..1]
    /\ pending \subseteq Sources
    /\ ready \subseteq pending
    /\ pc \in {"start", "poll", "dispatch", "returned", "done"}
    /\ Len(main_result) \in 0..1
    /\ op \in {"running", "finished_ok", "finished_fail"}
    /\ opCancels \in 0..MaxOpCancels
    /\ nStops \in 0..1

\* runs made of signal deliveries and dispatches only: the device operation
\* neither cancels the token nor completes
NextSignals ==
    \/ RunLoop
    \/ \E s \in Signals : Deliver(s)
    \/ Iterate
    \/ \E s \in Signals : DispatchSignal(s)
    \/ EndIteration
    \/ MainReturn

SpecSignals == Init /\ [][NextSignals]_vars

(***************************************************************************)
(* Properties                                                              *)
(***************************************************************************)
SignalDispatches == { i \in DOMAIN trace : trace[i].cb \in Signals }

\* the step is a dispatch of signals_handler
IsSignalDispatch ==
    /\ Len(trace') = Len(trace) + 1
    /\ trace'[Len(trace')].cb \in Signals

\* C1: over every sequence of signals_handler dispatches the token is false
\* before the first dispatch, true after it, and no step resets it to false.
C1_TokenMonotonic ==
    /\ [](cancelled <=> SignalDispatches # {})
    /\ [][cancelled => cancelled']_vars

C1_Witness ==
    /\ Cardinality(SignalDispatches) >= 3
    /\ cancelled
    /\ opCancels = 0

\* C2: a signals_handler dispatch that finds the token already cancelled leaves
\* the loop Stopped, for any pair of signal types and whatever the operation does.
C2_SecondSignalStops ==
    [][(IsSignalDispatch /\ cancelled) => loopState' = "Stopped"]_vars

C2_Witness ==
    /\ Len(trace) = 2
    /\ trace[1].cb = "SIGINT"
    /\ trace[2].cb = "SIGTERM"
    /\ trace[2].was_cancelled
    /\ trace[2].was_running
    /\ loopState = "Stopped"
    /\ op = "running"

\* C3: once the loop is Stopped, no step changes exit_status.
C3_ExitStatusFrozen ==
    [][loopState = "Stopped" => exit_status' = exit_status]_vars

\* C4: Scenario B: one signal dispatched, then the completion callback, nothing
\* else: the loop is stopped by the completion and main returns EXIT_FAILURE.
ScenarioB ==
    /\ Len(trace) = 2
    /\ trace[1].cb \in Signals
    /\ trace[2].cb = "op_done"

C4_ScenarioB ==
    ScenarioB =>
        /\ loopState = "Stopped"
        /\ trace[2].was_running
        /\ nStops = 1
        /\ exit_status = EXIT_FAILURE
        /\ (pc = "done" => main_result = << EXIT_FAILURE >>)

C4_Witness ==
    /\ ScenarioB
    /\ op = "finished_ok"
    /\ pc = "done"
    /\ main_result = << EXIT_FAILURE >>

\* C5: Scenario C: SIGINT then SIGTERM dispatched, the operation not completed:
\* the second handler stops the loop and main returns EXIT_FAILURE.
ScenarioC ==
    /\ Len(trace) = 2
    /\ trace[1].cb = "SIGINT"
    /\ trace[2].cb = "SIGTERM"
    /\ op = "running"

C5_ScenarioC ==
    ScenarioC =>
        /\ loopState = "Stopped"
        /\ trace[1].was_running /\ ~trace[1].was_cancelled
        /\ trace[2].was_running /\ trace[2].was_cancelled
        /\ nStops = 1
        /\ exit_status = EXIT_FAILURE
        /\ (pc = "done" => main_result = << EXIT_FAILURE >>)

C5_Witness ==
    /\ ScenarioC
    /\ pc = "done"
    /\ main_result = << EXIT_FAILURE >>

\* C6: Scenario A: no signal dispatched and the operation completes with
\* success: the loop stops once and main returns EXIT_SUCCESS.
ScenarioA ==
    /\ Len(trace) = 1
    /\ trace[1].cb = "op_done"
    /\ op = "finished_ok"

C6_ScenarioA ==
    ScenarioA =>
        /\ loopState = "Stopped"
        /\ nStops = 1
        /\ exit_status = EXIT_SUCCESS
        /\ (pc = "done" => main_result = << EXIT_SUCCESS >>)

C6_Witness ==
    /\ ScenarioA
    /\ pending = {}
    /\ pc = "done"
    /\ main_result = << EXIT_SUCCESS >>

\* C7: the loop is Stopped only after a completion callback or after a
\* signals_handler dispatch that found the token cancelled; after one signal
\* and nothing else the loop is still Running and main has not returned.
C7_OnlyWaysToStop ==
    /\ loopState = "Stopped" =>
          \E i \in DOMAIN trace :
              \/ trace[i].cb = "op_done"
              \/ trace[i].cb \in Signals /\ trace[i].was_cancelled
    /\ (Len(trace) = 1 /\ trace[1].cb \in Signals) =>
          /\ loopState = "Running"
          /\ pc \in {"poll", "dispatch"}

C7_Witness ==
    /\ Len(trace) = 1
    /\ trace[1].cb \in Signals
    /\ pc = "poll"
    /\ pending = {}
    /\ cancelled
    /\ loopState = "Running"

\* C8: if any signals_handler dispatch happened before main returned, main
\* returns a non-zero exit code.
C8_SignalMeansNonZero ==
    (pc = "done" /\ SignalDispatches # {}) => main_result[1] # 0

C8_Witness ==
    /\ pc = "done"
    /\ Len(trace) = 2
    /\ trace[1].cb = "op_cancel"
    /\ trace[2].cb \in Signals
    /\ main_result = << EXIT_FAILURE >>

\* C9: the token is cancelled exactly when a signal has been handled or the
\* operation's own cancellation request has run.
C9_TokenIff ==
    cancelled <=> (\E i \in DOMAIN trace : trace[i].cb \in Signals \cup {"op_cancel"})

C9_Witness ==
    /\ cancelled
    /\ Len(trace) = 1
    /\ trace[1].cb = "op_cancel"

\* C10: log_handler writes a line exactly when silent is off and (verbose is on
\* or the level is warning, critical or error).
ErrorLike == {G_LOG_LEVEL_WARNING, G_LOG_LEVEL_CRITICAL, G_LOG_LEVEL_ERROR}

C10_LogFilter ==
    log_last.called =>
        ((log_last.stream # "none") <=>
            (~silent_flag /\ (verbose_flag \/ log_last.level \in ErrorLike)))

C10_Witness ==
    /\ log_last.called
    /\ silent_flag
    /\ verbose_flag
    /\ log_last.level = G_LOG_LEVEL_ERROR
    /\ log_last.stream = "none"

\* the signal whose handler the step dispatches
DispatchedSignal == trace'[Len(trace')].cb

\* C11: a signals_handler dispatch for type s that finds the token not cancelled
\* sets exit_status to failure, cancels the token, leaves exactly one handler
\* registered for s and the other types as they were, and does not touch the loop.
C11_FirstRequestFrame ==
    [][(IsSignalDispatch /\ ~cancelled) =>
          /\ exit_status' = EXIT_FAILURE
          /\ cancelled'
          /\ handlers'[DispatchedSignal] = 1
          /\ \A s \in Signals : handlers'[s] = handlers[s]
          /\ loopState' = loopState
          /\ (loopState = "Running" => loopState' = "Running")]_vars

C11_Witness ==
    /\ Len(trace) = 1
    /\ trace[1].cb = "SIGHUP"
    /\ ~trace[1].was_cancelled
    /\ trace[1].was_running
    /\ cancelled
    /\ exit_status = EXIT_FAILURE
    /\ handlers = [s \in Signals |-> 1]
    /\ loopState = "Running"

\* C12: the loop goes from Running to Stopped at most once and never back, and
\* a signals_handler dispatch that finds the loop not running stops nothing and
\* prints no force-stop line.
C12_StopOnce ==
    /\ [](nStops <= 1)
    /\ [][loopState = "Stopped" => loopState' = "Stopped"]_vars
    /\ [][(IsSignalDispatch /\ ~g_main_loop_is_running) =>
             /\ nStops' = nStops
             /\ \A i \in DOMAIN stderr_lines' :
                   stderr_lines'[i] = "cancelling the main loop..." =>
                       i \in DOMAIN stderr_lines]_vars

C12_Witness ==
    /\ nStops = 1
    /\ \E i \in DOMAIN trace :
          /\ trace[i].cb \in Signals
          /\ trace[i].was_cancelled
          /\ ~trace[i].was_running
    /\ \E i \in DOMAIN trace : trace[i].cb = "op_done"

\* how many times a line was written with g_printerr
Printed(line) == Cardinality({ i \in DOMAIN stderr_lines : stderr_lines[i] = line })

\* dispatches of signals_handler that stopped the running loop
ForceStops ==
    { i \in SignalDispatches : trace[i].was_cancelled /\ trace[i].was_running }

\* dispatches of signals_handler that found the token cancelled and the loop
\* no longer running
LateDispatches ==
    { i \in SignalDispatches : trace[i].was_cancelled /\ ~trace[i].was_running }

\* C13 as stated: "cancelling the operation..." is printed exactly once, at the
\* first dispatch, "cancelling the main loop..." at most once, exactly when the
\* handler force-stops the loop, and every handled signal prints one of the two.
C13_EverySignalConfirmed ==
    /\ Printed("cancelling the operation...") = (IF SignalDispatches = {} THEN 0 ELSE 1)
    /\ Printed("cancelling the main loop...") = Cardinality(ForceStops)
    /\ Printed("cancelling the main loop...") <= 1
    /\ Len(stderr_lines) = Cardinality(SignalDispatches)

\* C13 as amended: the same two counts, and a handled signal prints one of the
\* two lines unless its handler found the token cancelled and the loop already
\* stopped, in which case it prints nothing.
C13_ConfirmationLines ==
    /\ Printed("cancelling the operation...") = (IF SignalDispatches = {} THEN 0 ELSE 1)
    /\ Printed("cancelling the main loop...") = Cardinality(ForceStops)
    /\ Printed("cancelling the main loop...") <= 1
    /\ Len(stderr_lines) = Cardinality(SignalDispatches) - Cardinality(LateDispatches)

C13_Witness ==
    /\ Cardinality(SignalDispatches) = 4
    /\ Cardinality(LateDispatches) = 2
    /\ stderr_lines = << "cancelling the operation...", "cancelling the main loop..." >>

\* C14: for every line log_handler writes, the stream and the tag are fixed by
\* the level: warning -> "-Warning **" on stderr, critical and error ->
\* "-Error **" on stderr, debug -> "[Debug]" on stdout, others -> "" on stdout.
C14_StreamAndTag ==
    (log_last.called /\ log_last.stream # "none") =>
        CASE log_last.level = G_LOG_LEVEL_WARNING ->
                 log_last.tag = "-Warning **" /\ log_last.stream = "stderr"
          [] log_last.level \in {G_LOG_LEVEL_CRITICAL, G_LOG_LEVEL_ERROR} ->
                 log_last.tag = "-Error **" /\ log_last.stream = "stderr"
          [] log_last.level = G_LOG_LEVEL_DEBUG ->
                 log_last.tag = "[Debug]" /\ log_last.stream = "stdout"
          [] OTHER ->
                 log_last.tag = "" /\ log_last.stream = "stdout"

C14_Witness ==
    /\ log_last.called
    /\ log_last.level = G_LOG_LEVEL_WARNING
    /\ log_last.stream = "stderr"
    /\ log_last.tag = "-Warning **"
    /\ ~verbose_flag

\* C15: while the loop is Running every monitored signal has exactly one handler
\* registered, and a step lowers a handler count only when it is a
\* signals_handler dispatch that finds the token already cancelled.
C15_HandlersWhileRunning ==
    /\ [](g_main_loop_is_running => \A s \in Signals : handlers[s] = 1)
    /\ [][(\E s \in Signals : handlers'[s] < handlers[s]) =>
             (IsSignalDispatch /\ cancelled)]_vars

C15_Witness ==
    /\ g_main_loop_is_running
    /\ pc = "poll"
    /\ Len(trace) = 1
    /\ trace[1].cb = "SIGTERM"
    /\ handlers = [s \in Signals |-> 1]

\* C16: when the token was cancelled by the operation before any signal was
\* handled, the first signals_handler dispatch takes the force-stop path: its
\* handler is not re-armed, the loop is Stopped, exit_status is failure.
C16_FirstSignalAfterOpCancel ==
    [][(IsSignalDispatch /\ SignalDispatches = {} /\ cancelled) =>
          /\ handlers'[DispatchedSignal] = 0
          /\ loopState' = "Stopped"
          /\ exit_status' = EXIT_FAILURE
          /\ cancelled']_vars

C16_Witness ==
    /\ Len(trace) = 2
    /\ trace[1].cb = "op_cancel"
    /\ trace[2].cb = "SIGINT"
    /\ trace[2].was_running
    /\ handlers["SIGINT"] = 0
    /\ loopState = "Stopped"
    /\ stderr_lines = << "cancelling the main loop..." >>

\* C17: at most one signals_handler dispatch re-arms (the one that finds the
\* token not cancelled), every source is one of the three initial ones or the
\* re-armed one, and so at most four dispatches happen in a run.
Rearms == { i \in SignalDispatches : ~trace[i].was_cancelled }

RegisteredNow == handlers["SIGINT"] + handlers["SIGHUP"] + handlers["SIGTERM"]

C17_AtMostFourDispatches ==
    /\ Cardinality(Rearms) <= 1
    /\ Cardinality(SignalDispatches) + RegisteredNow = 3 + Cardinality(Rearms)
    /\ Cardinality(SignalDispatches) <= 4

C17_Witness ==
    /\ Cardinality(SignalDispatches) = 4
    /\ Cardinality(Rearms) = 1
    /\ RegisteredNow = 0

====
